---------------------------- MODULE Spec2Model ----------------------------
(***************************************************************************)
(* Rail Currency (App/main.py): a Streamlit script that loads Rail.xlsx,   *)
(* narrows it through four cascading select boxes (Currency, IO Module,    *)
(* Denomination, Emission), mirrors the selection into the URL query       *)
(* parameters, and shows KPI cards, the matching rows and an Excel export. *)
(*                                                                         *)
(* A Python str is a sequence of pieces, a blank always being a piece of   *)
(* its own.  Text that is sorted (cell and query values) is cut into        *)
(* single characters, and Ord gives the code point sorted() compares by;    *)
(* text that is only stripped and compared for equality (column names) is   *)
(* cut into words.  A Python / pandas value is a record [t, s, n]: t is the *)
(* type tag, s the text of a str, n the number of an int or whole float.    *)
(***************************************************************************)
EXTENDS Integers, Sequences, FiniteSets, TLC

\* ------------------------------------------------------------------ bounds
MaxRows == 3

\* ------------------------------------------------------------ Python values
PStr(x) == [t |-> "str", s |-> x, n |-> 0]
PInt(k) == [t |-> "int", s |-> <<>>, n |-> k]
PFloat(k) == [t |-> "float", s |-> <<>>, n |-> k]
NaN == [t |-> "nan", s |-> <<>>, n |-> 0]
NA == [t |-> "NA", s |-> <<>>, n |-> 0]
None == [t |-> "none", s |-> <<>>, n |-> 0]

Range(f) == {f[i] : i \in DOMAIN f}

\* code points of the characters that occur in cell and query values
Ord ==
  (" " :> 32) @@ ("." :> 46) @@ ("0" :> 48) @@ ("1" :> 49) @@ ("2" :> 50) @@
  ("3" :> 51) @@ ("4" :> 52) @@ ("5" :> 53) @@ ("6" :> 54) @@ ("7" :> 55) @@
  ("8" :> 56) @@ ("9" :> 57) @@ ("<" :> 60) @@ (">" :> 62) @@ ("A" :> 65) @@
  ("B" :> 66) @@ ("C" :> 67) @@ ("E" :> 69) @@ ("N" :> 78) @@ ("U" :> 85) @@ ("Z" :> 90) @@
  ("a" :> 97) @@ ("e" :> 101) @@ ("n" :> 110) @@ ("o" :> 111) @@ ("x" :> 120)

\* Python's str < str: lexicographic by code point, a proper prefix is smaller
RECURSIVE StrLess(_, _)
StrLess(a, b) ==
  IF b = <<>> THEN FALSE
  ELSE IF a = <<>> THEN TRUE
  ELSE IF Ord[Head(a)] # Ord[Head(b)] THEN Ord[Head(a)] < Ord[Head(b)]
  ELSE StrLess(Tail(a), Tail(b))

RECURSIVE lstrip(_)
lstrip(x) == IF x # <<>> /\ Head(x) = " " THEN lstrip(Tail(x)) ELSE x

RECURSIVE rstrip(_)
rstrip(x) ==
  IF x # <<>> /\ x[Len(x)] = " " THEN rstrip(SubSeq(x, 1, Len(x) - 1)) ELSE x

\* str.strip()
strip(x) == rstrip(lstrip(x))

DigitChar == <<"0", "1", "2", "3", "4", "5", "6", "7", "8", "9">>

RECURSIVE Digits(_)
Digits(k) ==
  IF k < 10 THEN <<DigitChar[k + 1]>>
  ELSE Digits(k \div 10) \o <<DigitChar[(k % 10) + 1]>>

\* str(v), as astype(str) applies it to each element of an object or numeric
\* column: a missing value becomes the text "nan"
PyStr(v) ==
  CASE v.t = "str" -> v.s
    [] v.t = "int" -> Digits(v.n)
    [] v.t = "float" -> Digits(v.n) \o <<".", "0">>
    [] v.t = "nan" -> <<"n", "a", "n">>
    [] v.t = "NA" -> <<"<", "N", "A", ">">>
    [] OTHER -> <<"N", "o", "n", "e">>

\* pd.isna / the test dropna() applies
IsNull(v) == v.t \in {"nan", "NA", "none"}

\* --------------------------------------------------------------- column names
cCurr == <<"Curr">>
cCurrency == <<"Currency">>
cIO == <<"IO-Modul">>
cDenomination == <<"Denomination">>
cEmission == <<"Emission">>
cRailWidth == <<"Rail", " ", "width">>
cRailHeight == <<"Rail", " ", "height">>
cNoteWidth == <<"Note", " ", "width">>
cNoteHeight == <<"Note", " ", "height">>
cRailWidthLarge == cRailWidth \o <<" ", "large">>
cDenomDisplay == <<"Denomination_display">>
cRemark == <<"Remark">>

\* load_data: required
required ==
  {cCurr, cIO, cDenomination, cEmission,
   cRailWidth, cRailHeight, cNoteWidth, cNoteHeight}

\* load_data: the columns cast to Int64
kpi_columns == <<cRailWidth, cRailHeight, cNoteWidth, cNoteHeight, cRailWidthLarge>>

\* the table section: cols
cols ==
  <<cCurr, cCurrency, cIO, cDenomination, cEmission,
    cRailWidth, cRailHeight, cNoteWidth, cNoteHeight>>

\* --------------------------------------------------------------- data frames
\* A DataFrame is [columns, rows]: the sequence of column names and, in load
\* order, the rows, each the sequence of its values in column order.
EmptyDF == [columns |-> <<>>, rows |-> <<>>]

IndexOf(seq, v) == CHOOSE j \in 1..Len(seq) : seq[j] = v

\* Filter without the comparison: every row is kept
Filter_all(df, col, v) == df

\* df[df[col] == v]
Filter(df, col, v) ==
  LET j == IndexOf(df.columns, col)
  IN [columns |-> df.columns, rows |-> SelectSeq(df.rows, LAMBDA r : r[j] = v)]

\* Series.dropna()
dropna(seq) == SelectSeq(seq, LAMBDA v : ~IsNull(v))

\* Series.unique(): the distinct values in order of first appearance
RECURSIVE unique(_)
unique(seq) ==
  IF seq = <<>> THEN <<>>
  ELSE LET init == unique(SubSeq(seq, 1, Len(seq) - 1))
           last == seq[Len(seq)]
       IN IF last \in Range(init) THEN init ELSE Append(init, last)

\* insert v into an ascending list, after its equals (sorted() is stable)
RECURSIVE Insert(_, _)
Insert(seq, v) ==
  IF seq = <<>> THEN <<v>>
  ELSE IF StrLess(v.s, Head(seq).s) THEN <<v>> \o seq
  ELSE <<Head(seq)>> \o Insert(Tail(seq), v)

\* sorted left out: the list stays in order of first appearance
sorted_asis(seq) == seq

\* sorted(list of str)
RECURSIVE sorted(_)
sorted(seq) ==
  IF seq = <<>> THEN <<>>
  ELSE Insert(sorted(SubSeq(seq, 1, Len(seq) - 1)), seq[Len(seq)])

\* df[col]
Column(df, col) ==
  LET j == IndexOf(df.columns, col)
  IN [i \in 1..Len(df.rows) |-> df.rows[i][j]]

\* sorted(df[col].dropna().unique().tolist())
Options(df, col) == sorted(unique(dropna(Column(df, col))))

\* ------------------------------------------------------------------ loading
\* A workbook on disk is [exists, header, rows]: the header cells as typed
\* and the data rows as sequences of cells in header order.
NoFile == [exists |-> FALSE, header |-> <<>>, rows |-> <<>>]

\* first_existing(paths): the 1-based position of the first path that
\* exists, 0 for None
RECURSIVE first_existing(_)
first_existing(paths) ==
  IF paths = <<>> THEN 0
  ELSE IF Head(paths).exists THEN 1
  ELSE LET rest == first_existing(Tail(paths))
       IN IF rest = 0 THEN 0 ELSE rest + 1

\* pd.read_excel: a column of integers with empty cells is read as float64
\* (the integers become whole floats, the empty cells NaN); a column that
\* holds text keeps its cells as they are (object)
read_excel(f) ==
  LET nrows == Len(f.rows)
      isfloat(j) ==
        /\ \E i \in 1..nrows : f.rows[i][j].t = "nan"
        /\ \A i \in 1..nrows : f.rows[i][j].t \in {"int", "nan"}
      floats == {j \in 1..Len(f.header) : isfloat(j)}
  IN [columns |-> f.header,
      rows |-> [i \in 1..nrows |->
                 [j \in 1..Len(f.header) |->
                    IF j \in floats /\ f.rows[i][j].t = "int"
                    THEN PFloat(f.rows[i][j].n) ELSE f.rows[i][j]]]]

\* df.columns = df.columns.str.strip()
strip_columns(df) ==
  [columns |-> [j \in 1..Len(df.columns) |-> strip(df.columns[j])],
   rows |-> df.rows]

\* df[col] = series; a new column is appended at the right
assign(df, col, series) ==
  IF col \in Range(df.columns)
  THEN LET j == IndexOf(df.columns, col)
       IN [columns |-> df.columns,
           rows |-> [i \in 1..Len(df.rows) |-> [df.rows[i] EXCEPT ![j] = series[i]]]]
  ELSE [columns |-> Append(df.columns, col),
        rows |-> [i \in 1..Len(df.rows) |-> Append(df.rows[i], series[i])]]

\* astype("Int64"): a whole number or an empty cell can be cast, text cannot
CanInt64(v) == v.t \in {"int", "float", "nan", "NA"}
ToInt64(series) ==
  [i \in 1..Len(series) |->
     IF series[i].t \in {"int", "float"} THEN PInt(series[i].n) ELSE NA]

\* the loop over the KPI columns
RECURSIVE cast_kpis(_, _)
cast_kpis(df, cs) ==
  IF cs = <<>> THEN df
  ELSE LET c == Head(cs)
       IN IF c \in Range(df.columns)
          THEN cast_kpis(assign(df, c, ToInt64(Column(df, c))), Tail(cs))
          ELSE cast_kpis(df, Tail(cs))

\* "normalize for stable filtering": series.astype(str).str.strip()
normalize(series) == [i \in 1..Len(series) |-> PStr(strip(PyStr(series[i])))]

\* display without astype(str): the raw cells, an empty one staying NaN
display_raw(series) == series

\* Denomination_display: series.astype(str), blanks kept
display(series) == [i \in 1..Len(series) |-> PStr(PyStr(series[i]))]

\* load_data(path): [ok, err, df]
load_data(paths, path) ==
  IF path = 0
  THEN [ok |-> FALSE, err |-> "FileNotFoundError", df |-> EmptyDF]
  ELSE
    LET df0 == strip_columns(read_excel(paths[path]))
        missing == required \ Range(df0.columns)
        df1 == assign(df0, cCurr, normalize(Column(df0, cCurr)))
        df2 == assign(df1, cIO, normalize(Column(df1, cIO)))
        df3 == assign(df2, cEmission, normalize(Column(df2, cEmission)))
        df4 == assign(df3, cDenomDisplay, display(Column(df3, cDenomination)))
        castable ==
          \A j \in 1..Len(df4.columns) :
            df4.columns[j] \in Range(kpi_columns) =>
              \A i \in 1..Len(df4.rows) : CanInt64(df4.rows[i][j])
    IN IF missing # {}
       THEN [ok |-> FALSE, err |-> "ValueError", df |-> EmptyDF]
       ELSE IF ~castable
       THEN [ok |-> FALSE, err |-> "TypeError", df |-> EmptyDF]
       ELSE [ok |-> TRUE, err |-> "", df |-> cast_kpis(df4, kpi_columns)]

\* fmt_int
fmt_int(x) == IF ~IsNull(x) THEN x ELSE PStr(<<"-">>)

\* ------------------------------------------------------------------ widgets
QueryKeys == {"curr", "io", "denom", "emis"}
WidgetKeys == {"sel_currency", "sel_io", "sel_denom", "sel_emis"}

\* an empty st.query_params / st.session_state: every key absent
NoParams == [k \in QueryKeys |-> None]
NoWidgets == [k \in WidgetKeys |-> None]

\* pick_index in the manner of str.find: -1 when the value is not an option
pick_index_find(options, key, qp) ==
  IF options = <<>> THEN 0
  ELSE LET v == qp[key]
       IN IF v \in Range(options) THEN IndexOf(options, v) - 1 ELSE -1

\* pick_index(options, key): the 0-based position of the query value in the
\* options, 0 when it is absent or not an option.  st.query_params.get
\* returns a str or None, so the list branch never applies.
pick_index(options, key, qp) ==
  IF options = <<>> THEN 0
  ELSE LET v == qp[key]
       IN IF v \in Range(options) THEN IndexOf(options, v) - 1 ELSE 0

\* a select box that keeps whatever value it holds, an option or not
selectbox_stale(options, index, key, ss) ==
  IF options = <<>> THEN [err |-> FALSE, value |-> None]
  ELSE IF index \notin 0..(Len(options) - 1) THEN [err |-> TRUE, value |-> None]
  ELSE IF ss[key] # None THEN [err |-> FALSE, value |-> ss[key]]
  ELSE [err |-> FALSE, value |-> options[index + 1]]

\* st.selectbox(label, options, index=..., key=...): [err, value].
\* No options: None.  An index outside the options is rejected.  A value the
\* widget already holds under its key is kept while it is still an option;
\* otherwise the widget shows options[index].
selectbox(options, index, key, ss) ==
  IF options = <<>> THEN [err |-> FALSE, value |-> None]
  ELSE IF index \notin 0..(Len(options) - 1) THEN [err |-> TRUE, value |-> None]
  ELSE IF ss[key] \in Range(options) THEN [err |-> FALSE, value |-> ss[key]]
  ELSE [err |-> FALSE, value |-> options[index + 1]]

\* query_params.update with the last two values under each other's key
query_update_mixed(sc, si, sd, se) ==
  [k \in QueryKeys |->
     PStr(PyStr(CASE k = "curr" -> sc [] k = "io" -> si
                  [] k = "denom" -> se [] OTHER -> sd))]

\* st.query_params.update({...}): every value is stored as str(value)
query_update(sc, si, sd, se) ==
  [k \in QueryKeys |->
     PStr(PyStr(CASE k = "curr" -> sc [] k = "io" -> si
                  [] k = "denom" -> sd [] OTHER -> se))]

\* ------------------------------------------------------------ presentation
NoKpi == [shown |-> FALSE, rail_width |-> None, rail_height |-> None,
          note_width |-> None, note_height |-> None, large |-> None]

\* row[col]
At(dff, row, col) == row[IndexOf(dff.columns, col)]

\* the KPI cards taken from the last matching row, iloc[-1]
kpi_cards_last(dff) ==
  LET row == dff.rows[Len(dff.rows)]
  IN [shown |-> TRUE,
      rail_width |-> fmt_int(At(dff, row, cRailWidth)),
      rail_height |-> fmt_int(At(dff, row, cRailHeight)),
      note_width |-> fmt_int(At(dff, row, cNoteWidth)),
      note_height |-> fmt_int(At(dff, row, cNoteHeight)),
      large |-> IF cRailWidthLarge \in Range(dff.columns)
                   /\ ~IsNull(At(dff, row, cRailWidthLarge))
                THEN fmt_int(At(dff, row, cRailWidthLarge)) ELSE None]

\* row = df_final.iloc[0] and the four KPI cards, with the caption
kpi_cards(dff) ==
  LET row == dff.rows[1]
  IN [shown |-> TRUE,
      rail_width |-> fmt_int(At(dff, row, cRailWidth)),
      rail_height |-> fmt_int(At(dff, row, cRailHeight)),
      note_width |-> fmt_int(At(dff, row, cNoteWidth)),
      note_height |-> fmt_int(At(dff, row, cNoteHeight)),
      large |-> IF cRailWidthLarge \in Range(dff.columns)
                   /\ ~IsNull(At(dff, row, cRailWidthLarge))
                THEN fmt_int(At(dff, row, cRailWidthLarge)) ELSE None]

NoSheet == [offered |-> FALSE, columns |-> <<>>, rows |-> <<>>]

\* df_final.to_excel(buffer, index=False): the frame as it is, no index column
to_excel(dff) == [offered |-> TRUE, columns |-> dff.columns, rows |-> dff.rows]

\* available = [c for c in cols if c in df_final.columns]
available(dff) == SelectSeq(cols, LAMBDA c : c \in Range(dff.columns))

\* df_final[available].reset_index(drop=True)
dataframe(dff) ==
  LET av == available(dff)
      at == [k \in 1..Len(av) |-> IndexOf(dff.columns, av[k])]
  IN [offered |-> TRUE, columns |-> av,
      rows |-> [i \in 1..Len(dff.rows) |->
                 [k \in 1..Len(av) |-> dff.rows[i][at[k]]]]]

\* ------------------------------------------------------------- one script run
\* What one run of the script leaves behind.  status: "stopped" after
\* st.stop(), "error" after an uncaught exception, "done" at the footer.
Blank(qp, ss, cache) ==
  [status |-> "stopped", cache |-> cache, query_params |-> qp, session_state |-> ss,
   currency_options |-> <<>>, io_options |-> <<>>,
   denom_options |-> <<>>, emis_options |-> <<>>,
   sel_currency |-> None, sel_io |-> None, sel_denom |-> None, sel_emis |-> None,
   df_final |-> EmptyDF, kpi |-> NoKpi, download |-> NoSheet, table |-> NoSheet]

NoCache == [hit |-> FALSE, df |-> EmptyDF]

\* @st.cache_data: a successful load is kept for the life of the process
cached_load(paths, cache) ==
  IF cache.hit THEN [ok |-> TRUE, err |-> "", df |-> cache.df]
  ELSE load_data(paths, first_existing(paths))

\* one step of the cascade (steps 1 to 4 have the same shape): the option
\* list of the step's column over the rows left so far, the select box
\* preset from the query string, and the rows that match its value
Step(frame, col, qkey, wkey, qp, ss) ==
  LET options == Options(frame, col)
      w == selectbox(options, pick_index(options, qkey, qp), wkey, ss)
  IN [options |-> options, err |-> w.err, value |-> w.value,
      df |-> Filter(frame, col, w.value)]

\* what the run leaves behind, given its four steps: an exception in a select
\* box ends the run there; otherwise the query string is rewritten and the
\* KPI cards, the download and the table are rendered from df_final = st4.df
Page(st1, st2, st3, st4, blank) ==
  LET raised(r) == [r EXCEPT !.status = "error"]
      empty == st4.df.rows = <<>>
      s0 == [blank EXCEPT !.currency_options = st1.options]
      s1 == [s0 EXCEPT !.sel_currency = st1.value,
                       !.session_state["sel_currency"] = st1.value,
                       !.io_options = st2.options]
      s2 == [s1 EXCEPT !.sel_io = st2.value,
                       !.session_state["sel_io"] = st2.value,
                       !.denom_options = st3.options]
      s3 == [s2 EXCEPT !.sel_denom = st3.value,
                       !.session_state["sel_denom"] = st3.value,
                       !.emis_options = st4.options]
      s4 == [s3 EXCEPT !.sel_emis = st4.value,
                       !.session_state["sel_emis"] = st4.value,
                       !.query_params =
                          query_update(st1.value, st2.value, st3.value, st4.value),
                       !.df_final = st4.df,
                       !.kpi = IF empty THEN NoKpi ELSE kpi_cards(st4.df),
                       !.download = IF empty THEN NoSheet ELSE to_excel(st4.df),
                       !.table = IF empty THEN NoSheet ELSE dataframe(st4.df),
                       !.status = "done"]
  IN IF st1.err THEN raised(s0)
     ELSE IF st2.err THEN raised(s1)
     ELSE IF st3.err THEN raised(s2)
     ELSE IF st4.err THEN raised(s3)
     ELSE s4

\* the filters card and everything below it, for a loaded frame
Cascade(df, qp, ss, blank) ==
  LET st1 == Step(df, cCurr, "curr", "sel_currency", qp, ss)
      st2 == Step(st1.df, cIO, "io", "sel_io", qp, ss)
      st3 == Step(st2.df, cDenomDisplay, "denom", "sel_denom", qp, ss)
      st4 == Step(st3.df, cEmission, "emis", "sel_emis", qp, ss)
  IN Page(st1, st2, st3, st4, blank)

\* the script without st.stop(): after a failed load it carries on with an
\* empty frame
Run_on(paths, cache, qp, ss) ==
  LET ld == cached_load(paths, cache)
  IN Cascade(ld.df, qp, ss, Blank(qp, ss, [hit |-> ld.ok, df |-> ld.df]))

\* the script below the reset button: "Load data" (st.error and st.stop()
\* when load_data raises), then the cascade down to the footer
Run(paths, cache, qp, ss) ==
  LET ld == cached_load(paths, cache)
  IN IF ~ld.ok THEN Blank(qp, ss, cache)
     ELSE Cascade(ld.df, qp, ss, Blank(qp, ss, [hit |-> TRUE, df |-> ld.df]))

\* ------------------------------------------------------------------- inputs
\* Sample workbooks.  A data row is described by its four key cells (as
\* typed: text with stray blanks, whole numbers, an empty Denomination); the
\* other cells follow from the row's position, so that every record of a
\* workbook has KPI values of its own.  A workbook holds up to MaxRows rows
\* drawn from RowSpecs, repeats included.
Rec(c, i, d, e) == [c |-> PStr(c), i |-> PStr(i), d |-> d, e |-> PInt(e)]

RowSpecs ==
  {Rec(<<"E">>, <<"A">>, PInt(5), 1),
   Rec(<<"E">>, <<"A">>, PInt(5), 2),
   Rec(<<"E">>, <<"A">>, PInt(10), 1),
   Rec(<<"E">>, <<" ", "A">>, NaN, 1),
   Rec(<<"U", " ">>, <<" ", "B">>, PInt(5), 1),
   Rec(<<"U", " ">>, <<"C">>, NaN, 2)}

Tables(k) == UNION {[1..m -> RowSpecs] : m \in 0..k}

SampleCell(col, spec, pos) ==
  CASE col = cCurr -> spec.c
    [] col = cCurrency -> PStr(<<"E", "u", "r", "o">>)
    [] col = cIO -> spec.i
    [] col = cDenomination -> spec.d
    [] col = cEmission -> spec.e
    [] col = cRailWidth -> PInt(120 + pos)
    [] col = cRailHeight -> PInt(70 + pos)
    [] col = cNoteWidth -> PInt(140 + pos)
    [] col = cNoteHeight -> IF pos = 2 THEN NaN ELSE PInt(77)
    [] col = cRailWidthLarge -> IF pos = 1 THEN NaN ELSE PInt(200 + pos)
    [] OTHER -> PStr(<<"x">>)

MkFile(header, tbl) ==
  [exists |-> TRUE, header |-> header,
   rows |-> [pos \in 1..Len(tbl) |->
              [j \in 1..Len(header) |-> SampleCell(strip(header[j]), tbl[pos], pos)]]]

\* every known column and one more, some header cells typed with blanks
HFull ==
  <<<<" ">> \o cCurr, cCurrency, cIO, cDenomination, cEmission \o <<" ">>,
    cRailWidth, cRailHeight, cNoteWidth, cNoteHeight, cRailWidthLarge, cRemark>>

\* the required columns only, in another order, some cells typed with blanks
HBare ==
  <<cRailWidth, cRailHeight \o <<" ">>, cNoteWidth, cNoteHeight,
    cEmission, cDenomination, cIO, <<" ", " ">> \o cCurr>>

\* no Emission column
HMissing ==
  <<cCurr, cIO, cDenomination, cRailWidth, cRailHeight, cNoteWidth, cNoteHeight>>

SampleRow == Rec(<<"E">>, <<"A">>, PInt(5), 1)

\* a workbook whose Rail height holds text
BadKpiFile == [MkFile(HFull, <<SampleRow>>) EXCEPT !.rows[1][7] = PStr(<<"x">>)]

MissingFile == MkFile(HMissing, <<SampleRow>>)

MainFiles == {MkFile(HBare, tbl) : tbl \in Tables(MaxRows)}

FullFiles == {MkFile(HFull, tbl) : tbl \in Tables(1)}

\* <<App/Rail.xlsx, Rail.xlsx>>
Disks ==
  {<<f, NoFile>> : f \in MainFiles \cup FullFiles \cup {BadKpiFile, MissingFile}}
    \cup {<<NoFile, f>> : f \in FullFiles}
    \cup {<<MissingFile, MkFile(HFull, <<SampleRow>>)>>, <<NoFile, NoFile>>}

\* the values a shared URL may carry under each key; None: key absent
RefValues(k) ==
  CASE k = "curr" -> {None, PStr(<<"U">>)}
    [] k = "io" -> {None, PStr(<<"B">>)}
    [] k = "denom" -> {None, PStr(<<"5">>)}
    [] OTHER -> {None, PStr(<<"2">>)}

Refs ==
  [curr : RefValues("curr"), io : RefValues("io"),
   denom : RefValues("denom"), emis : RefValues("emis")]

\* -------------------------------------------------------------------- state
VARIABLES
  disk,              \* <<App/Rail.xlsx, Rail.xlsx>>
  cache,             \* st.cache_data of load_data
  query_params,      \* st.query_params
  session_state,     \* st.session_state (the four select boxes)
  status,            \* "idle" before the first run, then how the last run ended
  last,              \* what triggered the last run, see Trigger
  currency_options, io_options, denom_options, emis_options,
  sel_currency, sel_io, sel_denom, sel_emis,
  df_final,          \* the rows matching the four selections
  kpi,               \* the KPI cards
  download,          \* the sheet behind the download button
  table              \* the "Matching Row(s)" table

vars ==
  <<disk, cache, query_params, session_state, status, last,
    currency_options, io_options, denom_options, emis_options,
    sel_currency, sel_io, sel_denom, sel_emis, df_final, kpi, download, table>>

\* What triggers a run of the script: the browser opening the app ("start",
\* with the query string of the URL it opened), a reload, the user picking an
\* option (the widget's key), the reset button, the download button.
Trigger(op, url) == [op |-> op, url |-> url]

\* the page and the stores after a run, triggered by trigger, that ended as r
Show(trigger, r) ==
  /\ last' = trigger
  /\ cache' = r.cache
  /\ query_params' = r.query_params
  /\ session_state' = r.session_state
  /\ status' = r.status
  /\ currency_options' = r.currency_options
  /\ io_options' = r.io_options
  /\ denom_options' = r.denom_options
  /\ emis_options' = r.emis_options
  /\ sel_currency' = r.sel_currency
  /\ sel_io' = r.sel_io
  /\ sel_denom' = r.sel_denom
  /\ sel_emis' = r.sel_emis
  /\ df_final' = r.df_final
  /\ kpi' = r.kpi
  /\ download' = r.download
  /\ table' = r.table
  /\ UNCHANGED disk

\* A browser has opened the app at a URL whose query string is one of Refs:
\* a new session, nothing cached, the script not yet run.
Init ==
  /\ disk \in Disks
  /\ cache = NoCache
  /\ query_params \in Refs
  /\ session_state = NoWidgets
  /\ status = "idle"
  /\ last = Trigger("none", NoParams)
  /\ currency_options = <<>>
  /\ io_options = <<>>
  /\ denom_options = <<>>
  /\ emis_options = <<>>
  /\ sel_currency = None
  /\ sel_io = None
  /\ sel_denom = None
  /\ sel_emis = None
  /\ df_final = EmptyDF
  /\ kpi = NoKpi
  /\ download = NoSheet
  /\ table = NoSheet

\* the first run of the session: the selection is restored from the URL
Start ==
  /\ status = "idle"
  /\ Show(Trigger("start", query_params), Run(disk, cache, query_params, session_state))

\* the page is reloaded, or its URL is opened elsewhere
Reload ==
  /\ status # "idle"
  /\ Show(Trigger("reload", NoParams), Run(disk, cache, query_params, NoWidgets))

\* the user picks another option in a select box; the script reruns
Pick(key, options, current) ==
  /\ status = "done"
  /\ \E v \in Range(options) \ {current} :
       Show(Trigger(key, NoParams), Run(disk, cache, query_params, [session_state EXCEPT ![key] = v]))

ChangeCurrency == Pick("sel_currency", currency_options, sel_currency)
ChangeIO == Pick("sel_io", io_options, sel_io)
ChangeDenom == Pick("sel_denom", denom_options, sel_denom)
ChangeEmis == Pick("sel_emis", emis_options, sel_emis)

\* the reset button without the two clear() calls
reset_state_kept(qp, ss) == [query_params |-> qp, session_state |-> ss]

\* the reset button: st.session_state.clear(); st.query_params.clear()
reset_state(qp, ss) == [query_params |-> NoParams, session_state |-> NoWidgets]

\* ... and st.rerun(): the script runs again from the top
Reset ==
  /\ status # "idle"
  /\ LET cleared == reset_state(query_params, session_state)
     IN Show(Trigger("reset", NoParams), Run(disk, cache, cleared.query_params, cleared.session_state))

\* the download button is clicked: the script reruns with nothing changed
Download ==
  /\ download.offered
  /\ Show(Trigger("download", NoParams), Run(disk, cache, query_params, session_state))

Next ==
  \/ Start
  \/ Reload
  \/ ChangeCurrency
  \/ ChangeIO
  \/ ChangeDenom
  \/ ChangeEmis
  \/ Reset
  \/ Download

Spec == Init /\ [][Next]_vars


\* --------------------------------------------------------------- properties
\* The terms the properties are stated in, over a loaded table df (the frame
\* load_data returned, rows in load order) and a selection sel, the 4-tuple
\* <<currency, IO module, denomination, emission>>.
KeyColumns == <<cCurr, cIO, cDenomDisplay, cEmission>>

\* the value of record r in the field of step k
Key(df, r, k) == r[IndexOf(df.columns, KeyColumns[k])]

\* record r equals sel in the fields of steps 1..n
Agrees(df, r, sel, n) == \A k \in 1..n : Key(df, r, k) = sel[k]

\* the records that equal sel in the fields of steps 1..n, in load order
Matching(df, sel, n) == SelectSeq(df.rows, LAMBDA r : Agrees(df, r, sel, n))

\* the values of step k's field over the records matching the selections
\* before step k
Values(df, sel, k) == {Key(df, r, k) : r \in Range(Matching(df, sel, k - 1))}

\* the first member of a set of strings in ascending order
FirstSorted(S) == CHOOSE m \in S : \A o \in S : o = m \/ StrLess(m.s, o.s)

\* a list of strings strictly ascending, hence free of duplicates
Ascending(seq) == \A n \in 1..(Len(seq) - 1) : StrLess(seq[n].s, seq[n + 1].s)

Sel == <<sel_currency, sel_io, sel_denom, sel_emis>>
Opts == <<currency_options, io_options, denom_options, emis_options>>
QueryKey == <<"curr", "io", "denom", "emis">>

\* the position in load order of the first record matching the selection
FirstMatch(df, sel) ==
  CHOOSE n \in 1..Len(df.rows) :
    /\ Agrees(df, df.rows[n], sel, 4)
    /\ \A m \in 1..(n - 1) : ~Agrees(df, df.rows[m], sel, 4)

\* a KPI card shows the value, or the placeholder for an unknown one
Card(v) == IF IsNull(v) THEN PStr(<<"-">>) ELSE v

\* the record restricted to the given columns
Restrict(df, r, columns) ==
  [k \in 1..Len(columns) |-> r[IndexOf(df.columns, columns[k])]]

\* the columns an export may hold: those of cols present in the source
ExportColumns(df) == SelectSeq(cols, LAMBDA c : c \in Range(df.columns))

\* the workbook load_data reads: the first location that holds a file
NotFound == \A n \in DOMAIN disk : ~disk[n].exists
Source ==
  disk[CHOOSE n \in DOMAIN disk :
         disk[n].exists /\ \A m \in 1..(n - 1) : ~disk[m].exists]
ColumnAbsent ==
  /\ ~NotFound
  /\ \E c \in required : \A j \in DOMAIN Source.header : strip(Source.header[j]) # c

\* C1: after a pass over a loaded table, whatever reference or widget state
\* it started from, the final rows are exactly the records equal to the four
\* resolved selections in Curr, IO-Modul, Denomination_display and Emission:
\* none that differs in a field, none that equals all four left out.
C1_MatchesExact ==
  status = "done" =>
    /\ \A r \in Range(df_final.rows) : Agrees(cache.df, r, Sel, 4)
    /\ \A r \in Range(cache.df.rows) :
         Agrees(cache.df, r, Sel, 4) => r \in Range(df_final.rows)
    /\ df_final.rows = Matching(cache.df, Sel, 4)

\* a pass restored a currency other than the default from the URL and kept
\* some records of the table while leaving others out
C1_Witness ==
  /\ status = "done"
  /\ last.op = "start"
  /\ last.url.curr = sel_currency
  /\ Len(currency_options) >= 2
  /\ sel_currency # currency_options[1]
  /\ df_final.rows # <<>>
  /\ Len(df_final.rows) < Len(cache.df.rows)

\* step k after a run: its options are the field's values over the records
\* matching the new selections before it, and a selection that was old and is
\* no option any more has become the first option in ascending order
Recomputed(k, old, df, sel, opts) ==
  /\ Range(opts[k]) = Values(df, sel, k)
  /\ (Values(df, sel, k) # {} /\ old[k] \notin Values(df, sel, k)) =>
       sel[k] = FirstSorted(Values(df, sel, k))

\* C2: in a run that follows a finished run, when the selection of step 1, 2
\* or 3 changes, the option list of every later step is recomputed from the
\* new selections before it, and a later selection that is no member of its
\* new list is replaced by the list's first member in ascending order; and
\* after every run that reaches the footer each selection is a member of its
\* step's option list (a step without options has no selection).
C2_Downstream ==
  [][ /\ (status = "done" /\ status' = "done") =>
           \A u \in 1..3 :
             Sel'[u] # Sel[u] =>
               \A k \in (u + 1)..4 : Recomputed(k, Sel, cache'.df, Sel', Opts')
      /\ status' = "done" =>
           \A k \in 1..4 :
             IF Opts'[k] = <<>> THEN Sel'[k] = None
             ELSE Sel'[k] \in Range(Opts'[k])
    ]_vars

\* the user has switched between the table's two currencies; the IO module
\* selected before was an option of the old currency only, and the select
\* box now shows the first of the new currency's several IO modules
C2_Witness ==
  /\ status = "done"
  /\ last.op = "sel_currency"
  /\ Len(currency_options) = 2
  /\ Len(io_options) >= 2
  /\ sel_io = io_options[1]
  /\ \A c \in Range(currency_options) \ {sel_currency} :
       Values(cache.df, <<c, None, None, None>>, 2) \cap Range(io_options) = {}

\* C3: the first run of a session, which restores the selection from the
\* URL's query string, never ends in an error whatever is or is not under
\* curr, io, denom and emis: with a loaded table it reaches the footer, and a
\* step whose persisted value is absent or no member of its option list
\* (given the selections resolved before it) takes the list's first member in
\* ascending order.
C3_Restore ==
  [][ status = "idle" =>
        /\ status' # "error"
        /\ cache'.hit => status' = "done"
        /\ status' = "done" =>
             \A k \in 1..4 :
               LET values == Values(cache'.df, Sel', k)
               IN (values # {} /\ query_params[QueryKey[k]] \notin values) =>
                    Sel'[k] = FirstSorted(values)
    ]_vars

\* the URL named a denomination that the table does not hold for the
\* resolved currency and IO module; the run finished with the first of the
\* several denominations there are
C3_Witness ==
  /\ status = "done"
  /\ last.op = "start"
  /\ last.url.denom # None
  /\ last.url.denom \notin Range(denom_options)
  /\ Len(denom_options) >= 2
  /\ sel_denom = denom_options[1]

\* C4: after a pass, the option list of each step is strictly ascending in
\* lexicographic (code point) order, hence free of duplicates, and holds
\* exactly the step's field values over the records matching the selections
\* resolved before it; for step 2, every IO option is the IO-Modul of a record
\* of the selected currency and every such record's IO-Modul is an option.
C4_Options ==
  status = "done" =>
    /\ \A k \in 1..4 :
         /\ Ascending(Opts[k])
         /\ Range(Opts[k]) = Values(cache.df, Sel, k)
    /\ \A o \in Range(io_options) :
         \E r \in Range(cache.df.rows) :
           Key(cache.df, r, 1) = sel_currency /\ Key(cache.df, r, 2) = o
    /\ \A r \in Range(cache.df.rows) :
         Key(cache.df, r, 1) = sel_currency =>
           Key(cache.df, r, 2) \in Range(io_options)

\* the user has changed the currency, the new currency has several IO
\* modules, and the one that comes first in the table is not the first option
C4_Witness ==
  /\ status = "done"
  /\ last.op = "sel_currency"
  /\ Len(io_options) >= 2
  /\ LET first == Matching(cache.df, Sel, 1)[1]
     IN Key(cache.df, first, 2) # io_options[1]

\* C5: the exported sheet holds exactly the matching rows, under those of
\* Curr, Currency, IO-Modul, Denomination, Emission, Rail width, Rail height,
\* Note width, Note height that the source has, in that order, and under no
\* other column.
C5_ExportColumns ==
  download.offered =>
    /\ download.columns = ExportColumns(cache.df)
    /\ download.rows =
         [n \in 1..Len(df_final.rows) |->
            Restrict(cache.df, df_final.rows[n], ExportColumns(cache.df))]

\* C6: a run in which loading fails (no workbook at either location, or a
\* required column absent from the workbook once its header cells are
\* stripped) stops there: no option list, no selection, no KPI card, no table
\* and no download, and the query string is left as the run found it (as the
\* reset button cleared it, when that triggered the run).
C6_LoadFailure ==
  [][ (NotFound \/ ColumnAbsent) =>
        /\ status' = "stopped"
        /\ \A k \in 1..4 : Opts'[k] = <<>> /\ Sel'[k] = None
        /\ query_params' = IF last'.op = "reset" THEN NoParams ELSE query_params
        /\ kpi' = NoKpi
        /\ table' = NoSheet
        /\ download' = NoSheet
        /\ df_final' = EmptyDF
    ]_vars

\* the workbook at the first location lacks a required column (a complete
\* one lies at the second); the first run stopped and the URL's query string
\* is as it was
C6_Witness ==
  /\ ColumnAbsent
  /\ disk[2].exists
  /\ status = "stopped"
  /\ last.op = "start"
  /\ last.url # NoParams
  /\ query_params = last.url

\* C7: after the reset button, from whatever selection, the page shows what a
\* fresh start with an empty query string shows: at each step the first option
\* in ascending order given the defaults before it, and the widgets and the
\* query string hold that selection.
C7_Reset ==
  (last.op = "reset" /\ status = "done") =>
    LET fresh == Run(disk, NoCache, NoParams, NoWidgets)
    IN /\ \A k \in 1..4 :
            Values(cache.df, Sel, k) # {} =>
              Sel[k] = FirstSorted(Values(cache.df, Sel, k))
       /\ Sel = <<fresh.sel_currency, fresh.sel_io, fresh.sel_denom, fresh.sel_emis>>
       /\ query_params = fresh.query_params
       /\ session_state = fresh.session_state
       /\ df_final = fresh.df_final

\* a reset over a table with several currencies, IO modules left aside
C7_Witness ==
  /\ status = "done"
  /\ last.op = "reset"
  /\ Len(currency_options) >= 2
  /\ sel_currency = currency_options[1]
  /\ df_final.rows # <<>>

\* C8: a pass repeated with nothing changed (the download button), and a pass
\* started from the query string the last pass wrote with no widget state (a
\* reload, the URL opened elsewhere), resolve the same four selections, the
\* same option lists and the same matches, and write the same query string.
C8_Idempotent ==
  [][ (status = "done" /\ last'.op \in {"reload", "download"}) =>
        /\ status' = "done"
        /\ Sel' = Sel
        /\ Opts' = Opts
        /\ df_final' = df_final
        /\ query_params' = query_params
        /\ kpi' = kpi
        /\ table' = table
    ]_vars

\* the page reloaded on a selection that differs from the default at the
\* last two steps
C8_Witness ==
  /\ status = "done"
  /\ last.op = "reload"
  /\ Len(denom_options) >= 2
  /\ sel_denom # denom_options[1]
  /\ Len(emis_options) >= 2
  /\ sel_emis # emis_options[1]

\* C9: when records match the selection, the KPI cards show the rail and
\* note widths and heights of the matching record that comes first in load
\* order (the placeholder for an unknown value), and the table holds every
\* matching record, in load order.
C9_FirstInLoadOrder ==
  (status = "done" /\ Matching(cache.df, Sel, 4) # <<>>) =>
    LET first == cache.df.rows[FirstMatch(cache.df, Sel)]
        value(col) == first[IndexOf(cache.df.columns, col)]
    IN /\ kpi.shown
       /\ kpi.rail_width = Card(value(cRailWidth))
       /\ kpi.rail_height = Card(value(cRailHeight))
       /\ kpi.note_width = Card(value(cNoteWidth))
       /\ kpi.note_height = Card(value(cNoteHeight))
       /\ table.offered
       /\ table.rows =
            [n \in 1..Len(Matching(cache.df, Sel, 4)) |->
               Restrict(cache.df, Matching(cache.df, Sel, 4)[n], table.columns)]

\* several records match, the first of them is not the table's first record,
\* and the cards show its rail width, which the next match does not share
C9_Witness ==
  /\ status = "done"
  /\ Len(df_final.rows) >= 2
  /\ FirstMatch(cache.df, Sel) > 1
  /\ kpi.rail_width = At(df_final, df_final.rows[1], cRailWidth)
  /\ kpi.rail_width # At(df_final, df_final.rows[2], cRailWidth)

\* C10: with a loaded table of at least one row, after any pass all four
\* option lists and the matching rows are non-empty; an empty option list or
\* no match occurs only with a table that has no rows.
C10_NeverEmpty ==
  /\ cache.hit => status = "done"
  /\ status = "done" =>
       IF cache.df.rows # <<>>
       THEN /\ \A k \in 1..4 : Opts[k] # <<>>
            /\ df_final.rows # <<>>
            /\ kpi.shown /\ table.offered
       ELSE /\ \A k \in 1..4 : Opts[k] = <<>>
            /\ df_final.rows = <<>>

\* the user has picked the denomination of a record whose Denomination cell
\* is empty, and the record is shown
C10_Witness ==
  /\ status = "done"
  /\ last.op = "sel_denom"
  /\ sel_denom = PStr(<<"n", "a", "n">>)
  /\ Len(denom_options) >= 2
  /\ df_final.rows # <<>>

=============================================================================
